---------------------------- MODULE Spec2Model ----------------------------
(***************************************************************************)
(* Felix: a resumable OP_CAT indexer (src/src/main.rs).                    *)
(*                                                                         *)
(* The model covers the sled store (the CHECKPOINT key and one key per     *)
(* height), the bitcoind chain source, the witness matcher and the scan    *)
(* loop App::start_index, one step per blocking call so that an RPC        *)
(* failure or a kill of the process can fall between any two store writes. *)
(* Every store write in the source is followed by db.flush(), so the       *)
(* store variables are the durable state.                                  *)
(***************************************************************************)
EXTENDS Integers, Sequences, FiniteSets, TLC

(***************************************************************************)
(* Program constants and model bounds                                      *)
(***************************************************************************)

\* const BLOCK_DEPTH: u64 = 6
BLOCK_DEPTH == 6

\* Highest chain tip the chain source ever reports.
MaxTip == 8

\* Largest --start-block argument tried.
MaxStartBlock == 1

\* Longest witness given to the matcher on its own.
MaxWitnessLen == 3

\* Heights are u64 in the source.  TLC integers are 32 bits wide, so where
\* a u64 can wrap it is written out in base 2^16, most significant limb
\* first: <<65535, 65535, 65535, 65530>> is 2^64 - 6.
WordBits == 64

LimbBits == 16

LimbBase == 2 ^ LimbBits

U64Limbs == WordBits \div LimbBits

RECURSIVE limbs_of(_, _)
limbs_of(n, k) ==
    IF k = 0 THEN <<>> ELSE Append(limbs_of(n \div LimbBase, k - 1), n % LimbBase)

\* The u64 of a number small enough to be a TLC integer.
u64(n) == limbs_of(n, U64Limbs)

\* x < y on u64.
u64_lt(x, y) ==
    \E i \in 1 .. U64Limbs :
        /\ x[i] < y[i]
        /\ \A j \in 1 .. i - 1 : x[j] = y[j]

\* Limbs 1 .. i of x - y - borrow, the borrow carried upwards and dropped
\* at the top.
RECURSIVE sub_limbs(_, _, _, _)
sub_limbs(x, y, i, borrow) ==
    IF i = 0 THEN <<>>
    ELSE LET d == x[i] - y[i] - borrow
         IN  Append(sub_limbs(x, y, i - 1,
                              IF d < 0 THEN 1 ELSE IF d >= LimbBase THEN 0 - 1 ELSE 0),
                    d % LimbBase)

Heights == 0 .. MaxTip

StartBlocks == 0 .. MaxStartBlock

(***************************************************************************)
(* Script disassembly (bitcoin::Script::to_asm_string) and the matcher     *)
(***************************************************************************)

OP_PUSHDATA1 == 76

OP_PUSHDATA2 == 77

OP_PUSHDATA4 == 78

OP_CAT == 126

\* First byte of a taproot annex, and of a leaf-version-0xc0 control block.
TAPROOT_ANNEX_PREFIX == 80

TAPROOT_CONTROL_BASE == 192

\* Little-endian length of n bytes read at position i of the script.
RECURSIVE read_uint(_, _, _)
read_uint(script, i, n) ==
    IF n = 0 THEN 0
    ELSE script[i] + 256 * read_uint(script, i + 1, n - 1)

\* Number of length bytes that follow a push opcode.
push_len_bytes(op) ==
    CASE op = OP_PUSHDATA1 -> 1
      [] op = OP_PUSHDATA2 -> 2
      [] op = OP_PUSHDATA4 -> 4
      [] OTHER -> 0

\* The disassembly of script from position i on, as a sequence of tokens:
\* <<"op", b>> for an opcode, <<"data", bytes>> for the hex of a push,
\* <<"err">> for "<unexpected end>" / "<push past end>", after which the
\* disassembly stops.
RECURSIVE asm_tokens(_, _)
asm_tokens(script, i) ==
    IF i > Len(script) THEN <<>>
    ELSE LET op == script[i]
             nlen == push_len_bytes(op)
         IN  IF op >= 1 /\ op <= OP_PUSHDATA4
             THEN IF i + nlen > Len(script)
                  THEN << <<"err">> >>
                  ELSE LET n == IF nlen = 0 THEN op ELSE read_uint(script, i + 1, nlen)
                           from == i + nlen + 1
                       IN  IF n = 0
                           THEN << <<"op", op>> >> \o asm_tokens(script, from)
                           ELSE IF from + n - 1 > Len(script)
                           THEN << <<"op", op>>, <<"err">> >>
                           ELSE << <<"op", op>>, <<"data", SubSeq(script, from, from + n - 1)>> >>
                                \o asm_tokens(script, from + n)
             ELSE << <<"op", op>> >> \o asm_tokens(script, i + 1)

to_asm_string(script) == asm_tokens(script, 1)

\* A search for the opcode's byte that also looks into pushed data.
asm_contains_cat_in_data(asm) ==
    \E k \in 1 .. Len(asm) :
        \/ asm[k][1] = "op" /\ asm[k][2] = OP_CAT
        \/ asm[k][1] = "data" /\ \E b \in 1 .. Len(asm[k][2]) : asm[k][2][b] = OP_CAT

\* str::contains("OP_CAT") on the disassembly: hex digits and the error
\* markers never spell an opcode name, and OP_CAT is the only opcode whose
\* name contains "OP_CAT".
asm_contains_cat(asm) ==
    \E k \in 1 .. Len(asm) : asm[k][1] = "op" /\ asm[k][2] = OP_CAT

\* Witness::nth(i), zero-based; <<>> is None, <<e>> is Some(e).
witness_nth(witness, i) ==
    IF i >= 0 /\ i < Len(witness) THEN <<witness[i + 1]>> ELSE <<>>

\* Line 277: the zero-based position of the element taken as the tapscript.
tapscript_index(witness) == Len(witness) - 2

\* The matcher without its length test: the position underflows for a
\* witness of fewer than two elements and expect("witness") panics.
matcher_outcome_unguarded(witness) ==
    LET tapscript == witness_nth(witness, tapscript_index(witness))
    IN  IF tapscript = <<>> THEN "panic"
        ELSE IF asm_contains_cat(to_asm_string(tapscript[1])) THEN "match"
        ELSE "no_match"

\* witness_includes_cat, with the panic of expect("witness") as an outcome
\* of its own: match (true), no_match (false) or panic.
matcher_outcome(witness) ==
    IF Len(witness) <= 2 THEN "no_match"
    ELSE LET tapscript == witness_nth(witness, tapscript_index(witness))
         IN  IF tapscript = <<>> THEN "panic"
             ELSE IF asm_contains_cat(to_asm_string(tapscript[1])) THEN "match"
             ELSE "no_match"

witness_includes_cat(witness) == matcher_outcome(witness) = "match"

(***************************************************************************)
(* The chain source (bitcoind): blocks by height and previous outputs      *)
(***************************************************************************)

\* Witness stacks, each element a byte string.
W_CAT == << <<1>>, <<OP_CAT>>, <<TAPROOT_CONTROL_BASE>> >>

W_PUSHED_CAT == << <<1>>, <<1, OP_CAT>>, <<TAPROOT_CONTROL_BASE>> >>

W_TWO == << <<OP_CAT>>, <<TAPROOT_CONTROL_BASE>> >>

W_ANNEX == << <<OP_CAT>>, <<TAPROOT_CONTROL_BASE>>, <<TAPROOT_ANNEX_PREFIX>> >>

W_KEYPATH == << <<1>> >>

W_EMPTY == <<>>

\* Funding transactions: the outputs of txid 1 are a P2TR and a P2WSH
\* script_pubkey, given by witness version and program length.
PrevOutputs(txid) ==
    IF txid = 1
    THEN << [version |-> 1, program_len |-> 32], [version |-> 0, program_len |-> 32] >>
    ELSE << [version |-> 0, program_len |-> 20] >>

\* A prevout test that lets every output pass.
is_p2tr_any(script_pubkey) == TRUE

\* Script::is_p2tr: OP_1 followed by a 32-byte push.
is_p2tr(script_pubkey) ==
    script_pubkey.version = 1 /\ script_pubkey.program_len = 32

TxIn(witness, vout) ==
    [witness |-> witness, previous_output |-> [txid |-> 1, vout |-> vout]]

Tx(id, inputs) == [txid |-> id, input |-> inputs]

\* The transactions of the block at height h.  Heights repeat four shapes:
\* two matches, one of them with a key-path input too; one transaction
\* with two matching inputs beside a match on a non-taproot spend; one
\* match beside an empty witness; no match (pushed byte, two-element
\* witness, annex last).
BlockAt(h) ==
    CASE h % 4 = 0 ->
           << Tx(10 * h + 1, << TxIn(W_KEYPATH, 0), TxIn(W_CAT, 0) >>),
              Tx(10 * h + 2, << TxIn(W_CAT, 0) >>) >>
      [] h % 4 = 1 ->
           << Tx(10 * h + 1, << TxIn(W_CAT, 0), TxIn(W_CAT, 0) >>),
              Tx(10 * h + 2, << TxIn(W_CAT, 1) >>) >>
      [] h % 4 = 2 ->
           << Tx(10 * h + 1, << TxIn(W_EMPTY, 1) >>),
              Tx(10 * h + 2, << TxIn(W_CAT, 0) >>) >>
      [] OTHER ->
           << Tx(10 * h + 1, << TxIn(W_PUSHED_CAT, 0), TxIn(W_TWO, 0) >>),
              Tx(10 * h + 2, << TxIn(W_ANNEX, 0) >>) >>

(***************************************************************************)
(* The sled store: keys and ciborium encodings                             *)
(***************************************************************************)

\* u64::to_string: the decimal digits of a height, the key of its entry.
RECURSIVE to_string(_)
to_string(n) ==
    IF n < 10 THEN <<n>> ELSE Append(to_string(n \div 10), n % 10)

\* ciborium::into_writer(&u64): CBOR major type 0, shortest form.
cbor_encode_u64(n) ==
    IF n < 24 THEN <<n>>
    ELSE IF n < 256 THEN <<24, n>>
    ELSE IF n < 65536 THEN <<25, n \div 256, n % 256>>
    ELSE <<26, n \div 16777216, (n \div 65536) % 256, (n \div 256) % 256, n % 256>>

\* ciborium::from_reader::<u64, _>
cbor_decode_u64(bytes) ==
    CASE bytes[1] < 24 -> bytes[1]
      [] bytes[1] = 24 -> bytes[2]
      [] bytes[1] = 25 -> bytes[2] * 256 + bytes[3]
      [] OTHER -> ((bytes[2] * 256 + bytes[3]) * 256 + bytes[4]) * 256 + bytes[5]

\* ciborium::from_reader::<HashSet<Transaction>, _>: the array's elements.
cbor_decode_set(array) == {array[k] : k \in 1 .. Len(array)}

\* ciborium::into_writer(&HashSet<Transaction>): an array of the elements
\* in the set's iteration order, which HashSet leaves unspecified.
cbor_encode_set(set) ==
    {array \in [1 .. Cardinality(set) -> set] :
        \A i, j \in 1 .. Cardinality(set) : array[i] = array[j] => i = j}

(***************************************************************************)
(* State                                                                   *)
(***************************************************************************)

VARIABLES
    chain_tip,        \* bitcoind: what get_block_count returns now
    start_block,      \* App.start_block, the --start-block argument
    db_checkpoint,    \* sled: <<>> when CHECKPOINT is absent, else <<bytes>>
    db_txs,           \* sled: height key -> CBOR array of transactions
    pc,               \* position of start_index: idle, loop, parse, checkpoint
    index_till,       \* start_index: tip - BLOCK_DEPTH
    height,           \* start_index: the loop variable
    tx_i,             \* parse_block: position in block.txdata
    in_i,             \* parse_block: position in tx.input
    run_tip,          \* history: the tip read by the run in progress
    resumed_at,       \* history: the checkpoint read by the run in progress
    outcome,          \* history: how the last run ended; running during one
    ok_tip,           \* history: the tip read by the previous run if it
                      \* returned Ok, kept by a run only if it reads the same
    failed_at,        \* history: the height at which a chain-source call
                      \* aborted the previous run, kept until the next run
                      \* has fetched its first block
    cp_tip,           \* history: the tip read by the run that wrote CHECKPOINT
    last_op,          \* history: what the last step of start_index did
    last_insert,      \* history: the last insert_tx call and the entry before it
    processed,        \* history: the heights the run in progress has fetched
    query,            \* a read-only command that has run: its name, what it
                      \* read, how it ended and what it returned
    witness_in,       \* the matcher on its own: the witness it is given
    match_out         \* the matcher on its own: how the call ended

vars ==
    <<chain_tip, start_block, db_checkpoint, db_txs, pc,
      index_till, height, tx_i, in_i, run_tip, resumed_at, outcome, ok_tip,
      failed_at, cp_tip, last_op, last_insert, processed, query,
      witness_in, match_out>>

\* What start_index never touches.
aux_vars == <<query, witness_in, match_out>>

NoHeight == 0 - 1

NoInsert == [height |-> NoHeight, tx |-> Tx(0, <<>>), before |-> <<>>]

NoQuery == [cmd |-> "none", args |-> <<>>, status |-> "none", out |-> <<>>]

(***************************************************************************)
(* Store operations                                                        *)
(***************************************************************************)

\* db.get(height.to_string()): <<>> is None, <<array>> is Some(array).
db_get(db, h) ==
    IF to_string(h) \in DOMAIN db THEN <<db[to_string(h)]>> ELSE <<>>

db_insert(db, h, array) ==
    [k \in DOMAIN db \cup {to_string(h)} |->
        IF k = to_string(h) THEN array ELSE db[k]]

\* retrieve_check_point that never finds the persisted key.
retrieve_check_point_ignores_store(cp, sb) == sb

\* App::retrieve_check_point
retrieve_check_point(cp, sb) ==
    IF cp = <<>> THEN sb ELSE cbor_decode_u64(cp[1])

\* App::insert_check_point: the new value under CHECKPOINT.
insert_check_point(h) == <<cbor_encode_u64(h)>>

\* insert_tx that writes the new transaction over the entry.
insert_tx_overwrite(db, h, tx) == {db_insert(db, h, <<tx>>)}

\* insert_tx that keeps a list and pushes onto it.
insert_tx_append(db, h, tx) ==
    {db_insert(db, h, IF db_get(db, h) = <<>> THEN <<tx>>
                      ELSE Append(db_get(db, h)[1], tx))}

\* App::insert_tx: the store contents the call can leave (one per order in
\* which the HashSet is written out).
insert_tx(db, h, tx) ==
    LET current_txs == db_get(db, h)
        set == IF current_txs # <<>> THEN cbor_decode_set(current_txs[1]) ELSE {}
    IN  {db_insert(db, h, array) : array \in cbor_encode_set(set \cup {tx})}

\* A subtraction that comes out one too high.
wrapping_sub_one_more(a, b) == sub_limbs(a, b, U64Limbs, 0 - 1)

\* u64 subtraction: the wrapped value (release build), a - b modulo 2^64.
wrapping_sub(a, b) == sub_limbs(a, b, U64Limbs, 0)

\* The set stored at a height, and the number of elements of its array.
StoredSet(db, h) ==
    IF db_get(db, h) = <<>> THEN {} ELSE cbor_decode_set(db_get(db, h)[1])

StoredLen(db, h) ==
    IF db_get(db, h) = <<>> THEN 0 ELSE Len(db_get(db, h)[1])

(***************************************************************************)
(* Initial state: a fresh store, App::new done                             *)
(***************************************************************************)

Init ==
    /\ chain_tip \in 0 .. MaxTip
    /\ start_block \in StartBlocks
    /\ db_checkpoint = <<>>
    /\ db_txs = [k \in {} |-> <<>>]
    /\ pc = "idle"
    /\ index_till = u64(0)
    /\ height = 0
    /\ tx_i = 0
    /\ in_i = 0
    /\ run_tip = NoHeight
    /\ resumed_at = NoHeight
    /\ outcome = "none"
    /\ ok_tip = NoHeight
    /\ failed_at = NoHeight
    /\ cp_tip = NoHeight
    /\ last_op = "none"
    /\ last_insert = NoInsert
    /\ processed = <<>>
    /\ query = NoQuery
    /\ witness_in = <<>>
    /\ match_out = "none"

(***************************************************************************)
(* start_index, one step per blocking call                                 *)
(***************************************************************************)

\* The run is over (Ok, Err, panic or kill): the process exits, and the
\* next invocation starts from the store alone.
EndRun(how, failed, op) ==
    /\ pc' = "idle"
    /\ index_till' = u64(0)
    /\ height' = 0
    /\ tx_i' = 0
    /\ in_i' = 0
    /\ outcome' = how
    /\ ok_tip' = IF how = "ok" THEN run_tip ELSE NoHeight
    /\ failed_at' = failed
    /\ run_tip' = NoHeight
    /\ resumed_at' = NoHeight
    /\ last_op' = op
    /\ last_insert' = NoInsert
    /\ processed' = <<>>
    /\ UNCHANGED <<chain_tip, start_block, db_checkpoint, db_txs, cp_tip>>
    /\ UNCHANGED aux_vars

\* Line 88: get_block_count()? fails: Err before anything is read.
StartIndexRpcFails ==
    /\ pc = "idle"
    /\ EndRun("err", NoHeight, "exit")

\* Line 89: tip - BLOCK_DEPTH overflows; a build with overflow checks (the
\* dev profile) panics here.
StartIndexPanics ==
    /\ pc = "idle"
    /\ chain_tip < BLOCK_DEPTH
    /\ EndRun("panic", NoHeight, "subtract_overflow")

\* Lines 88-93: read the tip, compute index_till, read the checkpoint.  When
\* tip < BLOCK_DEPTH this is the build without overflow checks (the release
\* profile), where the subtraction wraps.
StartIndex ==
    /\ pc = "idle"
    /\ run_tip' = chain_tip
    /\ index_till' = wrapping_sub(u64(chain_tip), u64(BLOCK_DEPTH))
    /\ height' = retrieve_check_point(db_checkpoint, start_block)
    /\ resumed_at' = retrieve_check_point(db_checkpoint, start_block)
    /\ pc' = "loop"
    /\ outcome' = "running"
    /\ ok_tip' = IF ok_tip = chain_tip THEN ok_tip ELSE NoHeight
    /\ last_op' = "start_index"
    /\ last_insert' = NoInsert
    /\ processed' = <<>>
    /\ UNCHANGED <<chain_tip, start_block, db_checkpoint, db_txs, tx_i, in_i,
                   failed_at, cp_tip>>
    /\ UNCHANGED aux_vars

\* Line 95: the range checkpoint..index_till is exhausted; line 102: Ok(()).
FinishIndex ==
    /\ pc = "loop"
    /\ ~u64_lt(u64(height), index_till)
    /\ EndRun("ok", NoHeight, "exit")

\* Lines 96-97: get_block_hash(height)? and get_block(&hash)? succeed.
\* bitcoind knows no block above its tip.
FetchBlock ==
    /\ pc = "loop"
    /\ u64_lt(u64(height), index_till)
    /\ height <= chain_tip
    /\ pc' = "parse"
    /\ tx_i' = 1
    /\ in_i' = 1
    /\ failed_at' = NoHeight
    /\ last_op' = "get_block"
    /\ last_insert' = NoInsert
    /\ processed' = Append(processed, height)
    /\ UNCHANGED <<chain_tip, start_block, db_checkpoint, db_txs, index_till,
                   height, run_tip, resumed_at, outcome, ok_tip, cp_tip>>
    /\ UNCHANGED aux_vars

\* Lines 96-97: either call fails (always above the tip): Err.
FetchBlockFails ==
    /\ pc = "loop"
    /\ u64_lt(u64(height), index_till)
    /\ EndRun("err", height, "exit")

CurTx == BlockAt(height)[tx_i]

CurInput == CurTx.input[in_i]

\* Lines 152-156: the previous output the current input spends.
CurPrevOutput ==
    PrevOutputs(CurInput.previous_output.txid)[CurInput.previous_output.vout + 1]

\* Lines 148-149, 164-166: on to the next input, the next transaction, or
\* out of parse_block with Ok(()).
NextInput ==
    /\ IF in_i < Len(CurTx.input)
       THEN /\ in_i' = in_i + 1
            /\ UNCHANGED <<tx_i, pc>>
       ELSE IF tx_i < Len(BlockAt(height))
       THEN /\ tx_i' = tx_i + 1
            /\ in_i' = 1
            /\ UNCHANGED pc
       ELSE /\ pc' = "checkpoint"
            /\ UNCHANGED <<tx_i, in_i>>
    /\ UNCHANGED <<chain_tip, start_block, db_checkpoint, index_till, height,
                   run_tip, resumed_at, outcome, ok_tip, failed_at, cp_tip,
                   processed>>
    /\ UNCHANGED aux_vars

\* Line 150: the witness does not match.
ParseInputNoCat ==
    /\ pc = "parse"
    /\ ~witness_includes_cat(CurInput.witness)
    /\ NextInput
    /\ last_op' = "no_cat"
    /\ last_insert' = NoInsert
    /\ UNCHANGED db_txs

\* Lines 150-157: the witness matches, the prevout is not P2TR.
ParseInputNotP2tr ==
    /\ pc = "parse"
    /\ witness_includes_cat(CurInput.witness)
    /\ ~is_p2tr(CurPrevOutput)
    /\ NextInput
    /\ last_op' = "not_p2tr"
    /\ last_insert' = NoInsert
    /\ UNCHANGED db_txs

\* Lines 150-160: the witness matches, the prevout is P2TR: insert_tx.
ParseInputInsertTx ==
    /\ pc = "parse"
    /\ witness_includes_cat(CurInput.witness)
    /\ is_p2tr(CurPrevOutput)
    /\ db_txs' \in insert_tx(db_txs, height, CurTx)
    /\ last_insert' = [height |-> height, tx |-> CurTx,
                       before |-> IF db_get(db_txs, height) = <<>> THEN <<>>
                                  ELSE db_get(db_txs, height)[1]]
    /\ NextInput
    /\ last_op' = "insert_tx"

\* Lines 152-154: get_raw_transaction(..)? fails: Err out of parse_block.
ParseInputRpcFails ==
    /\ pc = "parse"
    /\ witness_includes_cat(CurInput.witness)
    /\ EndRun("err", height, "exit")

\* Line 159: insert_tx returns Err and expect("to insert tx") panics.
ParseInputStoreFails ==
    /\ pc = "parse"
    /\ witness_includes_cat(CurInput.witness)
    /\ is_p2tr(CurPrevOutput)
    /\ EndRun("panic", NoHeight, "exit")

\* Line 99: insert_check_point(height), then the loop's next height.
InsertCheckPoint ==
    /\ pc = "checkpoint"
    /\ db_checkpoint' = insert_check_point(height)
    /\ cp_tip' = run_tip
    /\ height' = height + 1
    /\ pc' = "loop"
    /\ tx_i' = 0
    /\ in_i' = 0
    /\ last_op' = "insert_check_point"
    /\ last_insert' = NoInsert
    /\ UNCHANGED <<chain_tip, start_block, db_txs, index_till, run_tip,
                   resumed_at, outcome, ok_tip, failed_at, processed>>
    /\ UNCHANGED aux_vars

\* Line 99: insert_check_point(height)? fails: Err.
InsertCheckPointFails ==
    /\ pc = "checkpoint"
    /\ EndRun("err", NoHeight, "exit")

\* The process is stopped from outside between two calls.
Kill ==
    /\ pc # "idle"
    /\ EndRun("killed", NoHeight, "exit")

(***************************************************************************)
(* The chain source's own steps                                            *)
(***************************************************************************)

EnvFrame ==
    UNCHANGED <<start_block, db_checkpoint, db_txs, pc,
                index_till, height, tx_i, in_i, run_tip, resumed_at, outcome,
                ok_tip, failed_at, cp_tip, last_op, last_insert, processed,
                query, witness_in, match_out>>

\* A block is mined.  start_index looks at the chain's height only at its
\* start and when it asks for a block, so a block mined while a block is
\* being parsed is the same as one mined when the loop comes round.
MineBlock ==
    /\ pc \in {"idle", "loop"}
    /\ chain_tip < MaxTip
    /\ chain_tip' = chain_tip + 1
    /\ EnvFrame

\* Between two runs the operator points the indexer at a node that is
\* behind (still syncing): a lower tip over the same blocks.
TipFallsBack ==
    /\ pc = "idle"
    /\ \E t \in 0 .. MaxTip :
          /\ t < chain_tip
          /\ chain_tip' = t
    /\ EnvFrame

Next ==
    \/ StartIndexRpcFails
    \/ StartIndexPanics
    \/ StartIndex
    \/ FinishIndex
    \/ FetchBlock
    \/ FetchBlockFails
    \/ ParseInputNoCat
    \/ ParseInputNotP2tr
    \/ ParseInputInsertTx
    \/ ParseInputRpcFails
    \/ ParseInputStoreFails
    \/ InsertCheckPoint
    \/ InsertCheckPointFails
    \/ Kill
    \/ MineBlock
    \/ TipFallsBack

Spec == Init /\ [][Next]_vars

(***************************************************************************)
(* Properties                                                              *)
(***************************************************************************)

\* The value under CHECKPOINT, when the key is present.
PersistedCheckpoint == cbor_decode_u64(db_checkpoint[1])

\* The transactions of block h that parse_block stores: an input whose
\* witness matches and whose previous output is P2TR.
ExpectedMatches(h) ==
    {BlockAt(h)[i] : i \in {k \in 1 .. Len(BlockAt(h)) :
        \E j \in 1 .. Len(BlockAt(h)[k].input) :
            LET input == BlockAt(h)[k].input[j]
            IN  /\ witness_includes_cat(input.witness)
                /\ is_p2tr(PrevOutputs(input.previous_output.txid)
                                      [input.previous_output.vout + 1])}}

\* C1: whatever runs, aborts and kills came before, every height from the
\* start block up to the persisted checkpoint has all the matching
\* transactions of its block in the store.
C1_CheckpointAfterMatches ==
    db_checkpoint # <<>> =>
        \A h \in start_block .. PersistedCheckpoint :
            ExpectedMatches(h) \subseteq StoredSet(db_txs, h)

\* C1 witness: a run was killed after it had checkpointed a height with two
\* matches and had begun storing the matches of the next height.
C1_Witness ==
    /\ db_checkpoint # <<>>
    /\ pc = "idle"
    /\ outcome = "killed"
    /\ Cardinality(ExpectedMatches(PersistedCheckpoint)) = 2
    /\ StoredSet(db_txs, PersistedCheckpoint + 1) # {}

\* C2: right after start_index has completed a height (the loop variable
\* has moved on to the next one) the persisted checkpoint is that next
\* height.
C2_CheckpointIsNextHeight ==
    last_op = "insert_check_point" => PersistedCheckpoint = height

\* C3: a run that follows one aborted by a chain-source failure at height h
\* and has heights to process begins with h.
C3_ResumesAtFailedHeight ==
    (/\ pc = "loop"
     /\ last_op = "start_index"
     /\ failed_at # NoHeight
     /\ u64_lt(u64(height), index_till))
        => height = failed_at

\* C4: in a run that reads the same tip as the run before it, which returned
\* Ok, no step changes the members or the size of any height's entry.
C4_IdempotentResume ==
    [][(pc # "idle" /\ ok_tip = run_tip) =>
          \A h \in Heights :
              /\ StoredSet(db_txs', h) = StoredSet(db_txs, h)
              /\ StoredLen(db_txs', h) = StoredLen(db_txs, h)]_vars

\* C4 witness: the second run has just re-inserted a transaction.
C4_Witness ==
    /\ pc # "idle"
    /\ ok_tip = run_tip
    /\ last_op = "insert_tx"

\* C5: while a run fetches, parses or stores for a height, the height is
\* below tip - 6 for the tip the run read.
C5_SafetyMargin ==
    pc \in {"parse", "checkpoint"} => height < run_tip - BLOCK_DEPTH

\* C6: a run that reads a tip below 6 has an empty range and returns Ok: it
\* does not panic, and its loop is exhausted as soon as it is entered.
C6_EmptyRangeBelowMargin ==
    /\ last_op # "subtract_overflow"
    /\ (pc # "idle" /\ run_tip < BLOCK_DEPTH) => (pc = "loop" /\ ~u64_lt(u64(height), index_till))

\* C7: no step replaces the persisted checkpoint by a smaller value, or
\* removes it.
C7_CheckpointMonotonic ==
    [][db_checkpoint # <<>> =>
          /\ db_checkpoint' # <<>>
          /\ cbor_decode_u64(db_checkpoint'[1]) >= PersistedCheckpoint]_vars

\* C7 witness: a run that resumed at a checkpoint written by an earlier run
\* has advanced the checkpoint beyond it.
C7_Witness ==
    /\ last_op = "insert_check_point"
    /\ db_checkpoint # <<>>
    /\ PersistedCheckpoint > resumed_at
    /\ resumed_at > start_block

\* C8: the persisted checkpoint is at most tip - 6 for the tip read by the
\* run that wrote it.
C8_CheckpointWithinMargin ==
    db_checkpoint # <<>> => PersistedCheckpoint <= cp_tip - BLOCK_DEPTH

\* C9: an insert_tx of a transaction that the entry of its height already
\* held leaves the entry with the same size and the same members.
C9_DedupLaw ==
    (/\ last_op = "insert_tx"
     /\ last_insert.tx \in cbor_decode_set(last_insert.before))
        => /\ StoredLen(db_txs, last_insert.height) = Len(last_insert.before)
           /\ StoredSet(db_txs, last_insert.height) = cbor_decode_set(last_insert.before)

\* C9 witness: the second matching input of a transaction has just been
\* inserted at the height that already held the transaction.
C9_Witness ==
    /\ last_op = "insert_tx"
    /\ last_insert.tx \in cbor_decode_set(last_insert.before)
    /\ Len(last_insert.tx.input) = 2
    /\ \A j \in 1 .. 2 : witness_includes_cat(last_insert.tx.input[j].witness)

\* C10: no step drops a transaction from any height's entry, and a step
\* that calls insert_tx(h, tx) makes the entry of h its former set with tx
\* and changes neither another height's entry nor the checkpoint.
C10_AppendOnly ==
    [][/\ \A h \in Heights : StoredSet(db_txs, h) \subseteq StoredSet(db_txs', h)
       /\ (pc = "parse" /\ last_op' = "insert_tx") =>
             /\ StoredSet(db_txs', height) = StoredSet(db_txs, height) \cup {CurTx}
             /\ \A g \in Heights \ {height} : db_get(db_txs', g) = db_get(db_txs, g)
             /\ db_checkpoint' = db_checkpoint]_vars

\* C10 witness: insert_tx has just added a second transaction to an entry,
\* with another height's entry and a checkpoint in the store.
C10_Witness ==
    /\ last_op = "insert_tx"
    /\ Len(last_insert.before) = 1
    /\ StoredLen(db_txs, last_insert.height) = 2
    /\ db_checkpoint # <<>>
    /\ \E g \in Heights \ {last_insert.height} : StoredSet(db_txs, g) # {}

(***************************************************************************)
(* The matcher on its own: witness_includes_cat over crafted witnesses     *)
(***************************************************************************)

\* Witness elements: a stack item, a tapscript that executes OP_CAT, two
\* tapscripts that only push its byte, a control block, an annex, an empty
\* element.
WitnessElements ==
    { <<1>>, <<OP_CAT>>, <<1, OP_CAT>>, <<OP_PUSHDATA1, 1, OP_CAT>>,
      <<TAPROOT_CONTROL_BASE>>, <<TAPROOT_ANNEX_PREFIX>>, <<>> }

Witnesses ==
    UNION {[1 .. n -> WitnessElements] : n \in 0 .. MaxWitnessLen}

\* A process that has not started anything, over an empty store.
FreshProcess ==
    /\ db_checkpoint = <<>>
    /\ db_txs = [k \in {} |-> <<>>]
    /\ pc = "idle"
    /\ index_till = u64(0)
    /\ height = 0
    /\ tx_i = 0
    /\ in_i = 0
    /\ run_tip = NoHeight
    /\ resumed_at = NoHeight
    /\ outcome = "none"
    /\ ok_tip = NoHeight
    /\ failed_at = NoHeight
    /\ cp_tip = NoHeight
    /\ last_op = "none"
    /\ last_insert = NoInsert
    /\ processed = <<>>
    /\ query = NoQuery

MatcherInit ==
    /\ witness_in \in Witnesses
    /\ match_out = "none"
    /\ chain_tip = 0
    /\ start_block = 0
    /\ FreshProcess

\* Lines 270-282: one call of witness_includes_cat.
CallMatcher ==
    /\ match_out = "none"
    /\ match_out' = matcher_outcome(witness_in)
    /\ UNCHANGED <<chain_tip, start_block, db_checkpoint, db_txs, pc,
                   index_till, height, tx_i, in_i, run_tip, resumed_at,
                   outcome, ok_tip, failed_at, cp_tip, last_op, last_insert,
                   processed, query, witness_in>>

MatcherNext == CallMatcher

MatcherSpec == MatcherInit /\ [][MatcherNext]_vars

\* BIP 341: the last of at least two elements is an annex when its first
\* byte is 0x50.
HasAnnex(witness) ==
    /\ Len(witness) >= 2
    /\ Len(witness[Len(witness)]) >= 1
    /\ witness[Len(witness)][1] = TAPROOT_ANNEX_PREFIX

\* A scan of every element for the opcode's byte.
ByteScan(witness) ==
    \E e \in 1 .. Len(witness) : \E b \in 1 .. Len(witness[e]) : witness[e][b] = OP_CAT

\* Tapscripts in which the byte of OP_CAT is pushed and never executed.
PushedCatScripts == { <<1, OP_CAT>>, <<OP_PUSHDATA1, 1, OP_CAT>> }

\* C13: the matcher ends with true or false on every witness, and with
\* false on a witness of fewer than two elements.
C13_MatcherNeverPanics ==
    match_out # "none" =>
        /\ match_out \in {"match", "no_match"}
        /\ Len(witness_in) < 2 => match_out = "no_match"

\* C13 witness: the matcher has answered no-match on a one-element witness.
C13_Witness ==
    /\ match_out = "no_match"
    /\ Len(witness_in) = 1
    /\ witness_in[1] = <<OP_CAT>>

\* C14: on a witness of exactly a tapscript and a control block whose
\* tapscript executes OP_CAT the matcher answers match.
C14_TwoElementMatch ==
    (/\ match_out # "none"
     /\ Len(witness_in) = 2
     /\ witness_in[2] = <<TAPROOT_CONTROL_BASE>>
     /\ asm_contains_cat(to_asm_string(witness_in[1])))
        => match_out = "match"

\* The element before the control block: the tapscript of a script-path
\* spend, with or without an annex.
ProperTapscript(witness) ==
    IF HasAnnex(witness) THEN witness[Len(witness) - 2]
    ELSE witness[Len(witness) - 1]

\* A script-path witness: a control block last, or second to last before an
\* annex, and a tapscript before it.
ScriptPathShape(witness) ==
    IF HasAnnex(witness)
    THEN Len(witness) >= 3 /\ witness[Len(witness) - 1] = <<TAPROOT_CONTROL_BASE>>
    ELSE Len(witness) >= 2 /\ witness[Len(witness)] = <<TAPROOT_CONTROL_BASE>>

\* C15: on a script-path witness of either shape (here of more than two
\* elements; the two-element one is C14's) the matcher's answer is that of
\* the element before the control block, never that of the control block or
\* of the annex.
C15_TapscriptChoice ==
    (/\ match_out # "none"
     /\ Len(witness_in) > 2
     /\ ScriptPathShape(witness_in))
        => (match_out = "match") =
              asm_contains_cat(to_asm_string(ProperTapscript(witness_in)))

\* C16: on a witness of more than two elements whose candidate tapscript
\* only pushes the byte of OP_CAT the matcher answers no-match, where a scan
\* of the bytes finds the byte.
C16_PushedCatNoMatch ==
    (/\ match_out # "none"
     /\ Len(witness_in) > 2
     /\ witness_in[Len(witness_in) - 1] \in PushedCatScripts)
        => /\ match_out = "no_match"
           /\ ByteScan(witness_in)

\* C16 witness: the matcher has answered on a three-element witness whose
\* tapscript pushes the byte and none of whose other elements holds it.
C16_Witness ==
    /\ match_out = "no_match"
    /\ witness_in = << <<1>>, <<1, OP_CAT>>, <<TAPROOT_CONTROL_BASE>> >>

(***************************************************************************)
(* What parse_block stores                                                 *)
(***************************************************************************)

\* The output an input spends, as the chain source gives it.
SpentOutput(input) ==
    PrevOutputs(input.previous_output.txid)[input.previous_output.vout + 1]

\* The transactions of block h with an input whose witness passes
\* witness_includes_cat and whose spent output is a version-1 witness
\* program of 32 bytes (P2TR).
ConfirmedMatches(h) ==
    {BlockAt(h)[i] : i \in {k \in 1 .. Len(BlockAt(h)) :
        \E j \in 1 .. Len(BlockAt(h)[k].input) :
            /\ witness_includes_cat(BlockAt(h)[k].input[j].witness)
            /\ SpentOutput(BlockAt(h)[k].input[j]).version = 1
            /\ SpentOutput(BlockAt(h)[k].input[j]).program_len = 32}}

\* The same for every height of the chain.
ConfirmedByHeight == [h \in Heights |-> ConfirmedMatches(h)]

\* The transactions of block h with an input whose witness passes the
\* matcher, whatever it spends.
WitnessMatches(h) ==
    {BlockAt(h)[i] : i \in {k \in 1 .. Len(BlockAt(h)) :
        \E j \in 1 .. Len(BlockAt(h)[k].input) :
            witness_includes_cat(BlockAt(h)[k].input[j].witness)}}

\* C17: no height ever holds a transaction that is not a prevout-confirmed
\* match of its block, and every height start_index has completed holds
\* exactly the prevout-confirmed matches of its block.
C17_StoredAreConfirmedMatches ==
    /\ \A k \in DOMAIN db_txs :
          \E h \in Heights :
              /\ k = to_string(h)
              /\ cbor_decode_set(db_txs[k]) \subseteq ConfirmedByHeight[h]
    /\ db_checkpoint # <<>> =>
          \A h \in start_block .. PersistedCheckpoint :
              StoredSet(db_txs, h) = ConfirmedByHeight[h]

\* C17 witness: a completed height whose block has a transaction that
\* passes the matcher on a non-taproot spend only, and is not stored.
C17_Witness ==
    /\ db_checkpoint # <<>>
    /\ \E h \in Heights :
          /\ h >= start_block
          /\ h <= PersistedCheckpoint
          /\ WitnessMatches(h) \ ConfirmedMatches(h) # {}
          /\ StoredSet(db_txs, h) # {}
          /\ StoredSet(db_txs, h) # WitnessMatches(h)

(***************************************************************************)
(* The read-only commands                                                  *)
(***************************************************************************)

\* Line 202: the report looks back this many heights from the checkpoint.
REPORT_WINDOW == 100

\* get_cats_in_range that leaves out the heights without an entry.
RECURSIVE get_cats_in_range_skips_missing(_, _, _)
get_cats_in_range_skips_missing(db, start, finish) ==
    IF start >= finish THEN <<>>
    ELSE (IF db_get(db, start) # <<>>
          THEN << <<start, Cardinality(cbor_decode_set(db_get(db, start)[1]))>> >>
          ELSE <<>>)
         \o get_cats_in_range_skips_missing(db, start + 1, finish)

\* App::get_cats_in_range: one (height, set.len()) pair per height of
\* start..finish.  The casts to i32 keep every height and count below 2^31.
RECURSIVE get_cats_in_range(_, _, _)
get_cats_in_range(db, start, finish) ==
    IF start >= finish THEN <<>>
    ELSE << <<start,
              IF db_get(db, start) # <<>>
              THEN Cardinality(cbor_decode_set(db_get(db, start)[1]))
              ELSE 0>> >>
         \o get_cats_in_range(db, start + 1, finish)

\* The height a key of the store names: the inverse of to_string.
RECURSIVE HeightOfKey(_)
HeightOfKey(key) ==
    IF Len(key) = 1 THEN key[1]
    ELSE 10 * HeightOfKey(SubSeq(key, 1, Len(key) - 1)) + key[Len(key)]

\* App::get_total_cat_txs, lines 173-179: the loop over starting_height..tip
\* adds set.len() at every height that has an entry.
RECURSIVE get_total_cat_txs(_, _, _)
get_total_cat_txs(db, starting_height, tip) ==
    IF starting_height >= tip THEN 0
    ELSE (IF db_get(db, starting_height) # <<>>
          THEN Cardinality(cbor_decode_set(db_get(db, starting_height)[1]))
          ELSE 0)
         + get_total_cat_txs(db, starting_height + 1, tip)

\* Line 212: input.witness.nth(input.witness.len() - 2).  Below two
\* elements the subtraction overflows: a panic with overflow checks, and
\* without them an index no witness has, so None either way.
report_tapscript(witness) == witness_nth(witness, tapscript_index(witness))

\* Lines 209-216: the disassemblies of a transaction's inputs pushed onto
\* one string with nothing between them, and the same for the hex dumps.
RECURSIVE scripts_asm(_)
scripts_asm(inputs) ==
    IF inputs = <<>> THEN <<>>
    ELSE to_asm_string(report_tapscript(inputs[1].witness)[1])
         \o scripts_asm(Tail(inputs))

RECURSIVE scripts_hex(_)
scripts_hex(inputs) ==
    IF inputs = <<>> THEN <<>>
    ELSE report_tapscript(inputs[1].witness)[1] \o scripts_hex(Tail(inputs))

\* Lines 217-222
TransactionExt(h, tx) ==
    [height |-> h, scripts_asm |-> scripts_asm(tx.input),
     scripts_hex |-> scripts_hex(tx.input), tx |-> tx]

\* Line 212: expect("witness") panics on an input without a tapscript slot.
report_tx_panics(tx) ==
    \E j \in 1 .. Len(tx.input) : report_tapscript(tx.input[j].witness) = <<>>

\* Lines 204-223 for one height: its records, in each order set.iter() can
\* give.
report_records(db, h) ==
    {[k \in 1 .. Len(array) |-> TransactionExt(h, array[k])] :
        array \in cbor_encode_set(StoredSet(db, h))}

\* The heights of start..checkpoint that have an entry: the loop of lines
\* 203-204 does nothing at the others.  start is a u64, the window's start
\* as line 202 computes it.
report_heights(db, start, checkpoint) ==
    {HeightOfKey(k) : k \in {x \in DOMAIN db :
                                /\ ~u64_lt(u64(HeightOfKey(x)), start)
                                /\ HeightOfKey(x) < checkpoint}}

\* Lines 203-223 over those heights in ascending order.
RECURSIVE report_bodies(_, _)
report_bodies(db, heights) ==
    IF heights = {} THEN {<<>>}
    ELSE LET h == CHOOSE x \in heights : \A y \in heights : x <= y
         IN  {a \o b : a \in report_records(db, h),
                        b \in report_bodies(db, heights \ {h})}

\* Lines 202-231 once the window's start is known: the ways the command can
\* end, with the content of output/cat_txs.json when it is written.
generate_cat_report(db, start, checkpoint) ==
    IF \E h \in report_heights(db, start, checkpoint) :
          \E tx \in StoredSet(db, h) : report_tx_panics(tx)
    THEN {[status |-> "panic", out |-> <<>>]}
    ELSE {[status |-> "ok", out |-> body] :
             body \in report_bodies(db, report_heights(db, start, checkpoint))}

\* What a read-only command leaves alone.
QueryFrame ==
    UNCHANGED <<chain_tip, start_block, db_checkpoint, db_txs, index_till,
                height, tx_i, in_i, run_tip, resumed_at, outcome, ok_tip,
                failed_at, cp_tip, last_op, last_insert, processed,
                witness_in, match_out>>

\* Lines 295-315: main runs one command to its end.
Command(cmd, args, status, out) ==
    /\ pc = "idle"
    /\ pc' = "query"
    /\ query' = [cmd |-> cmd, args |-> args, status |-> status, out |-> out]
    /\ QueryFrame

\* Lines 299-304
GetCheckpoint ==
    /\ pc = "idle"
    /\ Command("get_checkpoint", <<>>, "ok",
               <<retrieve_check_point(db_checkpoint, start_block), chain_tip>>)

\* Line 172: tip - BLOCK_DEPTH overflows, with overflow checks.
GetTotalCatTxsPanics ==
    /\ chain_tip < BLOCK_DEPTH
    /\ Command("get_total_cat_txs", <<start_block, chain_tip>>, "panic", <<>>)

\* Lines 172-173 where the subtraction wraps: the loop is to visit every
\* height up to the wrapped tip, 2^64 - 6 + tip, one db.get each; the
\* command does not return.
GetTotalCatTxsNeverReturns ==
    /\ chain_tip < BLOCK_DEPTH
    /\ Command("get_total_cat_txs", <<start_block, chain_tip>>, "looping", <<>>)

\* Lines 169-180
GetTotalCatTxs ==
    /\ chain_tip >= BLOCK_DEPTH
    /\ Command("get_total_cat_txs", <<start_block, chain_tip>>, "ok",
               <<get_total_cat_txs(db_txs, start_block,
                                   chain_tip - BLOCK_DEPTH)>>)

\* Line 235: tip - BLOCK_DEPTH overflows, with overflow checks.
CreatePlotsPanics ==
    /\ chain_tip < BLOCK_DEPTH
    /\ Command("plot", <<start_block, chain_tip>>, "panic", <<>>)

\* Lines 235-237 where the subtraction wraps: the series is to hold a pair
\* for every height up to the wrapped tip, more than memory can hold.
CreatePlotsExhaustsMemory ==
    /\ chain_tip < BLOCK_DEPTH
    /\ Command("plot", <<start_block, chain_tip>>, "abort", <<>>)

\* Lines 234-266: the series that is drawn.
CreatePlots ==
    /\ chain_tip >= BLOCK_DEPTH
    /\ Command("plot", <<start_block, chain_tip>>, "ok",
               get_cats_in_range(db_txs, start_block,
                                 chain_tip - BLOCK_DEPTH))

\* Line 202: checkpoint - 100 overflows, with overflow checks.
GenerateCatReportPanics ==
    /\ retrieve_check_point(db_checkpoint, start_block) < REPORT_WINDOW
    /\ Command("generate_report",
               <<retrieve_check_point(db_checkpoint, start_block)>>,
               "panic", <<>>)

\* Lines 196-232; below REPORT_WINDOW this is the build where the
\* subtraction wraps and the window start..checkpoint is empty.
GenerateCatReport ==
    /\ pc = "idle"
    /\ LET checkpoint == retrieve_check_point(db_checkpoint, start_block)
       IN  \E r \in generate_cat_report(db_txs,
                                        wrapping_sub(u64(checkpoint),
                                                     u64(REPORT_WINDOW)),
                                        checkpoint) :
               Command("generate_report", <<checkpoint>>, r.status, r.out)

\* The command's process exits.
QueryExit ==
    /\ pc = "query"
    /\ pc' = "idle"
    /\ query' = NoQuery
    /\ QueryFrame

(***************************************************************************)
(* Runs without failures, with the read-only commands between them         *)
(***************************************************************************)

\* Start heights at the bottom of the chain and just above the report's
\* window, each with the tips around it.
QueryStartBlocks == StartBlocks \cup {REPORT_WINDOW + s : s \in StartBlocks}

ChainBase(sb) == IF sb >= REPORT_WINDOW THEN REPORT_WINDOW ELSE 0

QueryMaxTip(sb) == IF sb >= REPORT_WINDOW THEN REPORT_WINDOW + MaxTip + 1 ELSE MaxTip

QueryInit ==
    /\ start_block \in QueryStartBlocks
    /\ chain_tip \in ChainBase(start_block) .. QueryMaxTip(start_block)
    /\ witness_in = <<>>
    /\ match_out = "none"
    /\ FreshProcess

\* Lines 96-97: bitcoind has no block above its tip, and the call fails
\* there only.
FetchBlockAboveTip ==
    /\ pc = "loop"
    /\ u64_lt(u64(height), index_till)
    /\ height > chain_tip
    /\ EndRun("err", height, "exit")

QueryMineBlock ==
    /\ pc \in {"idle", "loop"}
    /\ chain_tip < QueryMaxTip(start_block)
    /\ chain_tip' = chain_tip + 1
    /\ EnvFrame

\* A step of the run in progress.
IndexStep ==
    \/ FinishIndex
    \/ FetchBlock
    \/ FetchBlockAboveTip
    \/ ParseInputNoCat
    \/ ParseInputNotP2tr
    \/ ParseInputInsertTx
    \/ InsertCheckPoint

QueryNext ==
    \/ IndexStep
    \/ StartIndexPanics
    \/ StartIndex
    \/ GetCheckpoint
    \/ GetTotalCatTxsPanics
    \/ GetTotalCatTxsNeverReturns
    \/ GetTotalCatTxs
    \/ CreatePlotsPanics
    \/ CreatePlotsExhaustsMemory
    \/ CreatePlots
    \/ GenerateCatReportPanics
    \/ GenerateCatReport
    \/ QueryExit
    \/ QueryMineBlock

\* A run that has started goes on: nothing stops the process.
QuerySpec == QueryInit /\ [][QueryNext]_vars /\ WF_vars(IndexStep)

(***************************************************************************)
(* Properties of the read-only commands                                    *)
(***************************************************************************)

\* The heights a command can be asked about on this chain.
QueryHeights == ChainBase(start_block) .. QueryMaxTip(start_block)

\* The number of transactions recorded at a height, 0 without an entry.
CountAt(db, h) ==
    IF to_string(h) \in DOMAIN db THEN Cardinality(StoredSet(db, h)) ELSE 0

\* A series has one pair per height of [start, finish), ascending, each with
\* the count recorded at its height.
IsZeroFilledSeries(series, db, start, finish) ==
    /\ Len(series) = finish - start
    /\ \A k \in 1 .. Len(series) :
          /\ series[k][1] = start + k - 1
          /\ series[k][2] = CountAt(db, start + k - 1)

\* C11: over every store start_index produces and every start <= finish,
\* get_cats_in_range(start, finish) returns exactly one pair per height of
\* [start, finish), in ascending order, with the size of the set stored
\* there and 0 where nothing is stored; the series a plot command draws is
\* that of [start_block, tip - 6).
C11_ZeroFilledSeries ==
    /\ \A start, finish \in QueryHeights :
          start <= finish =>
              IsZeroFilledSeries(get_cats_in_range(db_txs, start, finish),
                                 db_txs, start, finish)
    /\ (query.cmd = "plot" /\ query.status = "ok") =>
          IsZeroFilledSeries(query.out, db_txs, start_block,
                             IF chain_tip - BLOCK_DEPTH > start_block
                             THEN chain_tip - BLOCK_DEPTH ELSE start_block)

\* C11 witness: a plot command has returned a series with a height that
\* holds matches and a later height without an entry, reported as 0.
C11_Witness ==
    /\ query.cmd = "plot"
    /\ query.status = "ok"
    /\ \E k, j \in 1 .. Len(query.out) :
          /\ k < j
          /\ query.out[k][2] > 0
          /\ query.out[j][2] = 0
          /\ to_string(query.out[j][1]) \notin DOMAIN db_txs

RECURSIVE SeriesTotal(_)
SeriesTotal(series) ==
    IF series = <<>> THEN 0 ELSE series[1][2] + SeriesTotal(Tail(series))

\* C12: get_total_cat_txs returns the sum of the stored set sizes over
\* [start_block, tip - 6), a height without an entry counting 0: the sum of
\* the counts get_cats_in_range returns over that range.
C12_TotalIsSeriesSum ==
    query.cmd = "get_total_cat_txs" =>
        /\ query.status = "ok"
        /\ query.out = <<SeriesTotal(get_cats_in_range(db_txs, start_block,
                                                      chain_tip - BLOCK_DEPTH))>>

(***************************************************************************)
(* A run without failures                                                  *)
(***************************************************************************)

\* A run is in progress.
Running == pc \in {"loop", "parse", "checkpoint"}

\* During a run the heights fetched so far are resumed_at, resumed_at + 1,
\* ... with no gap and no repeat, the loop variable is the next one, and
\* when the tip it read is at least 6, index_till stays that tip - 6 and no
\* fetched height reaches it, whatever the chain's tip has become.
RunInOrder ==
    Running =>
        /\ \A k \in 1 .. Len(processed) : processed[k] = resumed_at + k - 1
        /\ Len(processed) =
              height - resumed_at + (IF pc = "loop" THEN 0 ELSE 1)
        /\ run_tip >= BLOCK_DEPTH =>
              /\ index_till = u64(run_tip - BLOCK_DEPTH)
              /\ \A k \in 1 .. Len(processed) :
                    processed[k] < run_tip - BLOCK_DEPTH

\* A run that read a tip of at least 6 leaves the loop only with Ok, and
\* then it has fetched every height from its checkpoint up to tip - 6 and
\* none beyond.
RunEndsComplete ==
    (pc = "loop" /\ pc' = "idle" /\ run_tip >= BLOCK_DEPTH) =>
        /\ outcome' = "ok"
        /\ Len(processed) = (IF run_tip - BLOCK_DEPTH > resumed_at
                             THEN run_tip - BLOCK_DEPTH - resumed_at ELSE 0)

\* C18: a start_index run without failures processes exactly the heights
\* checkpoint, checkpoint + 1, ..., index_till - 1 in ascending order with
\* no gap, one at a time, with index_till = tip - 6 fixed from the tip read
\* at the start; it then terminates with success, leaving the heights that
\* became eligible during the run to the next invocation.
C18_FailureFreeRun ==
    /\ []RunInOrder
    /\ [][RunEndsComplete]_vars
    /\ (Running /\ run_tip >= BLOCK_DEPTH) ~> (pc = "idle" /\ outcome = "ok")

\* C18 witness: a run that fetched blocks has reached its index_till while
\* the chain has grown, so that its next height is eligible under the new
\* tip; the run is about to return without it.
C18_Witness ==
    /\ pc = "loop"
    /\ run_tip >= BLOCK_DEPTH
    /\ ~u64_lt(u64(height), index_till)
    /\ processed # <<>>
    /\ chain_tip > run_tip
    /\ height < chain_tip - BLOCK_DEPTH

(***************************************************************************)
(* The detail report                                                       *)
(***************************************************************************)

\* C19: generate_cat_report ends normally on every store start_index can
\* produce, whatever the checkpoint (persisted or defaulted, below 100 too)
\* and whatever inputs the stored transactions have.
C19_ReportNeverAborts ==
    query.cmd = "generate_report" => query.status = "ok"

\* C20: after start_index has completed, every transaction stored at one of
\* the last 100 scanned heights, the most recently scanned one included,
\* has a record with its height in the report.
C20_ReportCoversScannedWindow ==
    (query.cmd = "generate_report" /\ outcome = "ok" /\ db_checkpoint # <<>>) =>
        \A h \in QueryHeights :
            (/\ h >= start_block
             /\ h <= PersistedCheckpoint
             /\ h > PersistedCheckpoint - REPORT_WINDOW) =>
                \A tx \in StoredSet(db_txs, h) :
                    \E k \in 1 .. Len(query.out) :
                        /\ query.out[k].height = h
                        /\ query.out[k].tx = tx

=============================================================================
